---- MODULE Spec2Model ----
(***************************************************************************)
(* Model of src/app.py: the YouTube semantic search pipeline.              *)
(*                                                                         *)
(* A session is one Streamlit script thread.  Each rerun of the script     *)
(* with a non-empty user_input calls run_search (lines 83-86), which calls *)
(* fetch_videos (search provider, then get_transcript per item), embeds    *)
(* the candidate texts and the query, fits NearestNeighbors and asks for   *)
(* the n_neighbors nearest candidates.  get_transcript is memoized by      *)
(* st.cache_data (line 17); fetch_videos carries no decorator.             *)
(*                                                                         *)
(* The external libraries are modelled by their contracts: the providers   *)
(* answer nondeterministically (a response or an exception), the sentence  *)
(* encoder is a deterministic function of the text, and NearestNeighbors   *)
(* raises ValueError when fitted on no samples or asked for more           *)
(* neighbours than it was fitted on.                                       *)
(***************************************************************************)
EXTENDS Integers, Sequences, FiniteSets, TLC

\* Program constants.
n_neighbors == 5
max_results == 10

\* Bounds of the model.
MaxItems == 6
ConcItems == 2
MaxSearches == 2
ConcSearches == 2

Sessions == {1, 2}
Queries == {"cat", "learn python"}
ConcQueries == {"cat"}
VideoIds == 1..(IF MaxItems > ConcItems THEN MaxItems ELSE ConcItems)

Min(a, b) == IF a < b THEN a ELSE b

RECURSIVE Rep(_, _)
Rep(s, n) == IF n = 0 THEN "" ELSE s \o Rep(s, n - 1)

\* One element of response["items"], already projected on the three fields
\* the loop reads (lines 37-41).
Item(id) ==
    [video_id |-> id, title |-> "t" \o ToString(id), description |-> Rep("d", id)]

\* The order in which the search provider lists its videos for a query.
Catalog(q, cap, i) == IF q = "cat" THEN i ELSE cap + 1 - i

\* request.execute() (line 34): an ordered list of at most maxResults items,
\* possibly fewer, possibly none, or an exception.
SearchOutcomes(q, cap) ==
    { [kind |-> "ok", items |-> [i \in 1..n |-> Item(Catalog(q, cap, i))]] :
        n \in 0..Min(cap, max_results) }
    \cup { [kind |-> "HttpError", items |-> <<>>] }

\* YouTubeTranscriptApi.get_transcript(video_id) (line 20): a list of timed
\* segments, one of the two "no data" exceptions, or any other exception.
TranscriptOutcomes(id) ==
    (CASE id = 1 -> { [kind |-> "ok", segments |-> <<"hello", "world">>],
                      [kind |-> "ok", segments |-> <<"hello">>] }
       [] id = 2 -> { [kind |-> "TranscriptsDisabled", segments |-> <<>>] }
       [] id = 3 -> { [kind |-> "NoTranscriptFound", segments |-> <<>>] }
       [] OTHER  -> { [kind |-> "ok", segments |-> <<"lesson">>] })
    \cup { [kind |-> "RequestBlocked", segments |-> <<>>] }

Degradable == {"TranscriptsDisabled", "NoTranscriptFound"}

\* " ".join(...) (line 21).
RECURSIVE Join(_)
Join(segs) ==
    IF Len(segs) = 0 THEN ""
    ELSE IF Len(segs) = 1 THEN segs[1]
    ELSE segs[1] \o " " \o Join(Tail(segs))

\* The catch clause of line 22 that swallows every exception.
get_transcript_catch_all(o) ==
    IF o.kind = "ok"
    THEN [raised |-> "", value |-> Join(o.segments)]
    ELSE [raised |-> "", value |-> ""]

\* The catch clause of line 22 without NoTranscriptFound.
get_transcript_catch_disabled_only(o) ==
    IF o.kind = "ok"
    THEN [raised |-> "", value |-> Join(o.segments)]
    ELSE IF o.kind = "TranscriptsDisabled"
    THEN [raised |-> "", value |-> ""]
    ELSE [raised |-> o.kind, value |-> ""]

\* The body of get_transcript (lines 19-23) applied to the provider's answer.
get_transcript(o) ==
    IF o.kind = "ok"
    THEN [raised |-> "", value |-> Join(o.segments)]
    ELSE IF o.kind \in Degradable
    THEN [raised |-> "", value |-> ""]
    ELSE [raised |-> o.kind, value |-> ""]

\* st.cache_data (line 17): the memo of get_transcript, keyed by video_id.
CacheMissAlways(c, id) == FALSE
IsCached(c, id) == id \in DOMAIN c

CachePutReplacing(c, id, v) == (id :> v)
CachePut(c, id, v) == (id :> v) @@ c

\* line 42: get_transcript(video_id) if use_transcripts else "".
WantsTranscriptAlways(f) == TRUE
WantsTranscript(f) == f

\* request.execute() answering with an exception read as an empty response.
execute_swallowing(o) == [kind |-> "ok", items |-> o.items]
\* request.execute() (line 34): the answer, or the exception, as it comes.
execute(o) == o

\* line 64: f"{title} {description} {transcript}".
CombinedText(v) == v.title \o " " \o v.description \o " " \o v.transcript

\* model.encode (line 57), one text: a deterministic function of the text.
Encode(text) == Len(text)

\* embed_texts (lines 56-57): one vector per text, in order.
embed_texts(texts) == [i \in 1..Len(texts) |-> Encode(texts[i])]

\* metric="cosine" (line 68), as a distance between two encodings.
Distance(a, b) == IF a > b THEN a - b ELSE b - a

\* The orderings kneighbors may return: k distinct indices by non-decreasing
\* distance; the order among equal distances is the library's choice.
RECURSIVE Nearest(_, _, _, _)
Nearest(S, X, q, k) ==
    IF k = 0 \/ S = {} THEN { <<>> }
    ELSE LET best == { m \in S : \A j \in S : Distance(X[m], q) <= Distance(X[j], q) }
         IN  UNION { { <<m>> \o t : t \in Nearest(S \ {m}, X, q, k - 1) } : m \in best }

\* nn.fit (line 69): no samples is a ValueError.
fit(X) == IF Len(X) = 0 THEN "ValueError" ELSE ""

\* nn.kneighbors (line 70): more neighbours than samples is a ValueError.
kneighbors(X, q, k) ==
    IF k > Len(X)
    THEN [raised |-> "ValueError", indices |-> {}]
    ELSE [raised |-> "", indices |-> Nearest(1..Len(X), X, q, k)]

\* The stage order of run_search with the two embedding calls swapped.
StageAfterSwapped(stage) ==
    CASE stage = "fetch_videos" -> "embed_query"
      [] stage = "embed_query"  -> "embed_videos"
      [] stage = "embed_videos" -> "fit"
      [] stage = "fit"          -> "kneighbors"
      [] OTHER                  -> "done"

\* The statement order of run_search (lines 63-72).
StageAfter(stage) ==
    CASE stage = "fetch_videos" -> "embed_videos"
      [] stage = "embed_videos" -> "embed_query"
      [] stage = "embed_query"  -> "fit"
      [] stage = "fit"          -> "kneighbors"
      [] OTHER                  -> "done"

VARIABLES
    pc,             \* where each session's script is
    query,          \* user_input of the running search
    flag,           \* use_transcripts of the running search
    response,       \* response["items"] of the running search
    videos,         \* the list fetch_videos is building
    pending,        \* the value get_transcript computed and is about to memoize
    vEmb,           \* video_embeddings
    qEmb,           \* query_embedding
    results,        \* what run_search returned
    error,          \* the exception that ended the search, "" if none
    runs,           \* searches started by the session
    answer,         \* history: how the search provider answered the running search
    log,            \* history: the calls of the running search, in order
    provLog,        \* history: the transcript provider's answers in the running search
    cache,          \* st.cache_data's memo of get_transcript
    tOk,            \* history: per id, provider answers that were a transcript or "no data"
    tFail,          \* history: per id, provider answers that were another exception
    tCallsCached,   \* history: per id, provider calls made while the memo held the id
    returned,       \* history: per id, the strings computed from provider answers
    resolved,       \* history: per id, the strings get_transcript gave its callers
    fetched,        \* history: the (query, flag) pairs fetch_videos returned for
    sCallsAfterOk   \* history: search provider calls for a pair already in fetched

vars == << pc, query, flag, response, videos, pending, vEmb, qEmb, results, error,
           runs, answer, log, provLog, cache, tOk, tFail, tCallsCached, returned,
           resolved, fetched, sCallsAfterOk >>

sessionVars ==
    << query, flag, response, videos, pending, vEmb, qEmb, results, error, runs, answer >>
historyVars == << tOk, tFail, tCallsCached, returned, resolved, fetched, sCallsAfterOk >>

Key(p) == << query[p], flag[p] >>
Event(op, id) == [op |-> op, id |-> id]

Init ==
    /\ pc = [p \in Sessions |-> "idle"]
    /\ query = [p \in Sessions |-> ""]
    /\ flag = [p \in Sessions |-> FALSE]
    /\ response = [p \in Sessions |-> <<>>]
    /\ videos = [p \in Sessions |-> <<>>]
    /\ pending = [p \in Sessions |-> ""]
    /\ vEmb = [p \in Sessions |-> <<>>]
    /\ qEmb = [p \in Sessions |-> <<>>]
    /\ results = [p \in Sessions |-> <<>>]
    /\ error = [p \in Sessions |-> ""]
    /\ runs = [p \in Sessions |-> 0]
    /\ answer = [p \in Sessions |-> ""]
    /\ log = [p \in Sessions |-> <<>>]
    /\ provLog = [p \in Sessions |-> <<>>]
    /\ cache = << >>
    /\ tOk = [id \in VideoIds |-> 0]
    /\ tFail = [id \in VideoIds |-> 0]
    /\ tCallsCached = [id \in VideoIds |-> 0]
    /\ returned = [id \in VideoIds |-> {}]
    /\ resolved = [id \in VideoIds |-> {}]
    /\ fetched = {}
    /\ sCallsAfterOk = [k \in Queries \X BOOLEAN |-> 0]

\* lines 80-86: a rerun of the script with a non-empty user_input.
StartSearch(p, budget, qs) ==
    /\ pc[p] = "idle"
    /\ budget > 0
    /\ \E q \in qs, f \in BOOLEAN :
        /\ query' = [query EXCEPT ![p] = q]
        /\ flag' = [flag EXCEPT ![p] = f]
    /\ runs' = [runs EXCEPT ![p] = @ + 1]
    /\ pc' = [pc EXCEPT ![p] = "fetch_videos"]
    /\ response' = [response EXCEPT ![p] = <<>>]
    /\ videos' = [videos EXCEPT ![p] = <<>>]
    /\ pending' = [pending EXCEPT ![p] = ""]
    /\ vEmb' = [vEmb EXCEPT ![p] = <<>>]
    /\ qEmb' = [qEmb EXCEPT ![p] = <<>>]
    /\ results' = [results EXCEPT ![p] = <<>>]
    /\ error' = [error EXCEPT ![p] = ""]
    /\ answer' = [answer EXCEPT ![p] = ""]
    /\ log' = [log EXCEPT ![p] = <<>>]
    /\ provLog' = [provLog EXCEPT ![p] = <<>>]
    /\ UNCHANGED << cache, historyVars >>

\* lines 26-35: build the request and execute it.
SearchProviderCall(p, cap) ==
    /\ pc[p] = "fetch_videos"
    /\ \E o \in SearchOutcomes(query[p], cap) :
        LET r == execute(o) IN
        /\ answer' = [answer EXCEPT ![p] = o.kind]
        /\ IF r.kind = "ok"
           THEN /\ response' = [response EXCEPT ![p] = r.items]
                /\ pc' = [pc EXCEPT ![p] = "loop"]
                /\ error' = error
           ELSE /\ response' = response
                /\ pc' = [pc EXCEPT ![p] = "failed"]
                /\ error' = [error EXCEPT ![p] = r.kind]
    /\ log' = [log EXCEPT ![p] = Append(@, Event("search_provider", 0))]
    /\ sCallsAfterOk' = IF Key(p) \in fetched
                        THEN [sCallsAfterOk EXCEPT ![Key(p)] = @ + 1]
                        ELSE sCallsAfterOk
    /\ UNCHANGED << query, flag, videos, pending, vEmb, qEmb, results, runs, provLog,
                    cache, tOk, tFail, tCallsCached, returned, resolved, fetched >>

Current(p) == response[p][Len(videos[p]) + 1]
InLoop(p) == pc[p] = "loop" /\ Len(videos[p]) < Len(response[p])
Video(item, t) ==
    [video_id |-> item.video_id, title |-> item.title,
     description |-> item.description, transcript |-> t]

\* lines 36-43 with use_transcripts false: the transcript is "".
AppendPlain(p) ==
    /\ InLoop(p)
    /\ ~WantsTranscript(flag[p])
    /\ videos' = [videos EXCEPT ![p] = Append(@, Video(Current(p), ""))]
    /\ UNCHANGED << pc, query, flag, response, pending, vEmb, qEmb, results, error,
                    runs, answer, log, provLog, cache, historyVars >>

\* line 42, get_transcript(video_id) answered from the memo.
TranscriptCacheHit(p) ==
    /\ InLoop(p)
    /\ WantsTranscript(flag[p])
    /\ LET id == Current(p).video_id IN
        /\ IsCached(cache, id)
        /\ videos' = [videos EXCEPT ![p] = Append(@, Video(Current(p), cache[id]))]
        /\ resolved' = [resolved EXCEPT ![id] = @ \cup {cache[id]}]
        /\ log' = [log EXCEPT ![p] = Append(@, Event("get_transcript", id))]
    /\ UNCHANGED << pc, query, flag, response, pending, vEmb, qEmb, results, error,
                    runs, answer, provLog, cache, tOk, tFail, tCallsCached, returned,
                    fetched, sCallsAfterOk >>

\* line 42, get_transcript(video_id) not in the memo: the body will run.
TranscriptCacheMiss(p) ==
    /\ InLoop(p)
    /\ WantsTranscript(flag[p])
    /\ LET id == Current(p).video_id IN
        /\ ~IsCached(cache, id)
        /\ log' = [log EXCEPT ![p] = Append(@, Event("get_transcript", id))]
    /\ pc' = [pc EXCEPT ![p] = "provider"]
    /\ UNCHANGED << sessionVars, provLog, cache, historyVars >>

\* lines 19-23: the provider answers and the body returns or raises.
TranscriptProviderCall(p) ==
    /\ pc[p] = "provider"
    /\ LET id == Current(p).video_id IN
       \E o \in TranscriptOutcomes(id) :
        LET r == get_transcript(o) IN
        /\ provLog' = [provLog EXCEPT ![p] = Append(@, Event(o.kind, id))]
        /\ tOk' = IF o.kind \in Degradable \cup {"ok"}
                  THEN [tOk EXCEPT ![id] = @ + 1] ELSE tOk
        /\ tFail' = IF o.kind \in Degradable \cup {"ok"}
                    THEN tFail ELSE [tFail EXCEPT ![id] = @ + 1]
        /\ tCallsCached' = IF id \in DOMAIN cache
                           THEN [tCallsCached EXCEPT ![id] = @ + 1] ELSE tCallsCached
        /\ IF r.raised = ""
           THEN /\ pending' = [pending EXCEPT ![p] = r.value]
                /\ returned' = [returned EXCEPT ![id] = @ \cup {r.value}]
                /\ pc' = [pc EXCEPT ![p] = "memoize"]
                /\ error' = error
           ELSE /\ pending' = pending
                /\ returned' = returned
                /\ pc' = [pc EXCEPT ![p] = "failed"]
                /\ error' = [error EXCEPT ![p] = r.raised]
    /\ UNCHANGED << query, flag, response, videos, vEmb, qEmb, results, runs, answer,
                    log, cache, resolved, fetched, sCallsAfterOk >>

\* line 17: st.cache_data stores the returned value; line 42 receives it.
TranscriptCacheWrite(p) ==
    /\ pc[p] = "memoize"
    /\ LET id == Current(p).video_id IN
        /\ cache' = CachePut(cache, id, pending[p])
        /\ videos' = [videos EXCEPT ![p] = Append(@, Video(Current(p), pending[p]))]
        /\ resolved' = [resolved EXCEPT ![id] = @ \cup {pending[p]}]
    /\ pc' = [pc EXCEPT ![p] = "loop"]
    /\ UNCHANGED << query, flag, response, pending, vEmb, qEmb, results, error, runs,
                    answer, log, provLog, tOk, tFail, tCallsCached, returned, fetched,
                    sCallsAfterOk >>

\* line 44: return videos.
FetchReturn(p) ==
    /\ pc[p] = "loop"
    /\ Len(videos[p]) = Len(response[p])
    /\ fetched' = fetched \cup {Key(p)}
    /\ pc' = [pc EXCEPT ![p] = StageAfter("fetch_videos")]
    /\ UNCHANGED << sessionVars, log, provLog, cache, tOk, tFail, tCallsCached, returned,
                    resolved, sCallsAfterOk >>

\* lines 64-65: the candidate texts and their embeddings.
EmbedVideos(p) ==
    /\ pc[p] = "embed_videos"
    /\ vEmb' = [vEmb EXCEPT ![p] =
                  embed_texts([i \in 1..Len(videos[p]) |-> CombinedText(videos[p][i])])]
    /\ log' = [log EXCEPT ![p] = Append(@, Event("embed_videos", 0))]
    /\ pc' = [pc EXCEPT ![p] = StageAfter("embed_videos")]
    /\ UNCHANGED << query, flag, response, videos, pending, qEmb, results, error, runs,
                    answer, provLog, cache, historyVars >>

\* line 66: the query embedding.
EmbedQuery(p) ==
    /\ pc[p] = "embed_query"
    /\ qEmb' = [qEmb EXCEPT ![p] = embed_texts(<< query[p] >>)]
    /\ log' = [log EXCEPT ![p] = Append(@, Event("embed_query", 0))]
    /\ pc' = [pc EXCEPT ![p] = StageAfter("embed_query")]
    /\ UNCHANGED << query, flag, response, videos, pending, vEmb, results, error, runs,
                    answer, provLog, cache, historyVars >>

\* lines 68-69: NearestNeighbors(...).fit(video_embeddings).
Fit(p) ==
    /\ pc[p] = "fit"
    /\ log' = [log EXCEPT ![p] = Append(@, Event("fit", 0))]
    /\ IF fit(vEmb[p]) = ""
       THEN /\ pc' = [pc EXCEPT ![p] = StageAfter("fit")]
            /\ error' = error
       ELSE /\ pc' = [pc EXCEPT ![p] = "failed"]
            /\ error' = [error EXCEPT ![p] = fit(vEmb[p])]
    /\ UNCHANGED << query, flag, response, videos, pending, vEmb, qEmb, results, runs,
                    answer, provLog, cache, historyVars >>

\* lines 70-72: kneighbors and the mapping of indices back to videos.
KNeighbors(p) ==
    /\ pc[p] = "kneighbors"
    /\ log' = [log EXCEPT ![p] = Append(@, Event("kneighbors", 0))]
    /\ LET r == kneighbors(vEmb[p], qEmb[p][1], n_neighbors) IN
       IF r.raised = ""
       THEN /\ \E idx \in r.indices :
                 results' = [results EXCEPT ![p] =
                               [i \in 1..Len(idx) |-> videos[p][idx[i]]]]
            /\ pc' = [pc EXCEPT ![p] = StageAfter("kneighbors")]
            /\ error' = error
       ELSE /\ results' = results
            /\ pc' = [pc EXCEPT ![p] = "failed"]
            /\ error' = [error EXCEPT ![p] = r.raised]
    /\ UNCHANGED << query, flag, response, videos, pending, vEmb, qEmb, runs,
                    answer, provLog, cache, historyVars >>

\* lines 88-93 or the uncaught exception: the script run ends.
ScriptEnds(p) ==
    /\ pc[p] \in {"done", "failed"}
    /\ pc' = [pc EXCEPT ![p] = "idle"]
    /\ UNCHANGED << sessionVars, log, provLog, cache, historyVars >>

\* The steps of a session's script that do not depend on the environment bounds.
Step(p) ==
    \/ AppendPlain(p)
    \/ TranscriptCacheHit(p)
    \/ TranscriptCacheMiss(p)
    \/ TranscriptProviderCall(p)
    \/ TranscriptCacheWrite(p)
    \/ FetchReturn(p)
    \/ EmbedVideos(p)
    \/ EmbedQuery(p)
    \/ Fit(p)
    \/ KNeighbors(p)
    \/ ScriptEnds(p)

\* One session: searches run one after the other.
Next ==
    \/ StartSearch(1, MaxSearches - runs[1], Queries)
    \/ SearchProviderCall(1, MaxItems)
    \/ Step(1)
Spec == Init /\ [][Next]_vars

\* Two sessions whose script threads interleave.
NextConc ==
    \E p \in Sessions :
        \/ StartSearch(p, ConcSearches - (runs[1] + runs[2]), ConcQueries)
        \/ SearchProviderCall(p, ConcItems)
        \/ Step(p)
SpecConc == Init /\ [][NextConc]_vars

(***************************************************************************)
(* Properties.                                                             *)
(***************************************************************************)

IsPrefix(s, t) == Len(s) <= Len(t) /\ \A i \in 1..Len(s) : s[i] = t[i]
Ops(l) == { l[i].op : i \in 1..Len(l) }
IdsOf(l) == { l[i].id : i \in 1..Len(l) }
CountId(l, id) == Cardinality({ i \in 1..Len(l) : l[i].id = id })
Ended(p) == pc[p] \in {"done", "failed"}
Stopped(p) == pc[p] \in {"failed", "idle"}
DistanceOf(p, v) == Distance(Encode(CombinedText(v)), qEmb[p][1])
UpstreamErrors == {"HttpError", "RequestBlocked"}

\* C1: for every fetched candidate set of size n >= 1, run_search completes
\* and returns exactly min(n_neighbors, n) results by non-decreasing distance
\* to the query (in particular 3 results for 3 candidates).
C1_RanksMinKN ==
    \A p \in Sessions :
        (Ended(p) /\ Len(vEmb[p]) >= 1) =>
            /\ pc[p] = "done"
            /\ Len(results[p]) = Min(n_neighbors, Len(vEmb[p]))
            /\ \A i \in 1..(Len(results[p]) - 1) :
                 DistanceOf(p, results[p][i]) <= DistanceOf(p, results[p][i + 1])

\* C2: over any sequence of searches, the transcript provider answers with a
\* transcript or a "no data" condition at most once per identifier, it is
\* never contacted for an identifier the memo holds, and every resolve of the
\* identifier gives the same string.
C2_TranscriptAtMostOnce ==
    \A id \in VideoIds :
        /\ tOk[id] <= 1
        /\ tCallsCached[id] = 0
        /\ Cardinality(resolved[id]) <= 1
        /\ id \in DOMAIN cache => resolved[id] = {cache[id]}

\* C2 witness: a second search reuses the memoized empty transcript of the
\* video whose transcripts are disabled, without a provider call.
C2_Witness ==
    /\ runs[1] = 2 /\ flag[1] /\ pc[1] = "embed_videos"
    /\ tOk[2] = 1
    /\ 2 \notin IdsOf(provLog[1])
    /\ \E i \in 1..Len(videos[1]) :
         videos[1][i].video_id = 2 /\ videos[1][i].transcript = ""

\* C3: after one successful fetch_videos(query, flag), a later fetch_videos
\* with the same query and flag makes no new call to the search provider.
C3_FetchMemoized ==
    \A k \in Queries \X BOOLEAN : sCallsAfterOk[k] = 0

\* C4: with transcripts requested, a "disabled" or "not found" answer gives
\* the candidate the empty transcript and the search goes on, so that every
\* fetched candidate is embedded; any other provider failure ends the search
\* with that error, and no transcript is made up for the candidate.
C4_DegradeOrPropagate ==
    \A p \in Sessions :
        /\ error[p] \notin Degradable
        /\ "embed_videos" \in Ops(log[p]) => Len(vEmb[p]) = Len(response[p])
        /\ \A j \in 1..Len(provLog[p]) :
             LET e == provLog[p][j] IN
             /\ e.op \in Degradable =>
                  /\ \A i \in 1..Len(videos[p]) :
                       videos[p][i].video_id = e.id => videos[p][i].transcript = ""
                  /\ (j = Len(provLog[p]) /\ pc[p] = "memoize") => pending[p] = ""
                  /\ (j = Len(provLog[p]) /\ pc[p] \notin {"memoize"}) =>
                       e.id \in { videos[p][i].video_id : i \in 1..Len(videos[p]) }
             /\ e.op \notin Degradable \cup {"ok"} =>
                  /\ j = Len(provLog[p])
                  /\ Stopped(p)
                  /\ error[p] = e.op
                  /\ results[p] = <<>>
                  /\ e.id \notin { videos[p][i].video_id : i \in 1..Len(videos[p]) }

\* C4 witness: a search with transcripts met both "no data" conditions and
\* still returned results.
C4_Witness ==
    /\ pc[1] = "done" /\ flag[1]
    /\ {"TranscriptsDisabled", "NoTranscriptFound"} \subseteq Ops(provLog[1])
    /\ Len(results[1]) = n_neighbors

\* C5: a search with use_transcripts false never calls get_transcript or the
\* transcript provider, whatever the memo holds, and every candidate's
\* transcript is the empty string.
C5_NoTranscriptCalls ==
    \A p \in Sessions :
        ~flag[p] =>
            /\ provLog[p] = <<>>
            /\ "get_transcript" \notin Ops(log[p])
            /\ pc[p] \notin {"provider", "memoize"}
            /\ \A i \in 1..Len(videos[p]) : videos[p][i].transcript = ""
            /\ \A i \in 1..Len(results[p]) : results[p][i].transcript = ""

\* C5 witness: a search without transcripts returned results while the memo
\* already held transcripts of its candidates.
C5_Witness ==
    /\ pc[1] = "done" /\ ~flag[1] /\ runs[1] = 2
    /\ Len(results[1]) = n_neighbors
    /\ {1, 2, 3} \subseteq DOMAIN cache

\* C6: when the search provider fails, or the transcript provider fails with
\* a non-degradable error, the search ends failed with that error: nothing is
\* returned, the failed call was made once, and no later call (transcript,
\* embedding, ranking) was made.
C6_FailureAborts ==
    \A p \in Sessions :
        /\ answer[p] \notin {"", "ok"} =>
             /\ Stopped(p) /\ error[p] = answer[p]
             /\ results[p] = <<>> /\ videos[p] = <<>>
             /\ vEmb[p] = <<>> /\ qEmb[p] = <<>>
             /\ log[p] = << Event("search_provider", 0) >>
             /\ provLog[p] = <<>>
        /\ \A j \in 1..Len(provLog[p]) :
             LET e == provLog[p][j] IN
             e.op \notin Degradable \cup {"ok"} =>
                /\ Stopped(p) /\ error[p] = e.op
                /\ results[p] = <<>> /\ vEmb[p] = <<>> /\ qEmb[p] = <<>>
                /\ j = Len(provLog[p])
                /\ CountId(provLog[p], e.id) = 1
                /\ log[p][Len(log[p])] = Event("get_transcript", e.id)
                /\ CountId(log[p], 0) = 1
        /\ error[p] \in UpstreamErrors => Stopped(p) /\ results[p] = <<>>

\* C6 witness: the third transcript call of a search failed after two
\* candidates were assembled.
C6_Witness ==
    /\ pc[1] = "failed" /\ error[1] = "RequestBlocked"
    /\ Len(videos[1]) = 2 /\ Len(response[1]) >= 4

\* C7: when the search provider returns zero items, run_search returns an
\* empty sequence and the search ends done, not in an error.
C7_EmptyIsDone ==
    \A p \in Sessions :
        (Ended(p) /\ answer[p] = "ok" /\ Len(response[p]) = 0) =>
            pc[p] = "done" /\ results[p] = <<>> /\ error[p] = ""

\* The calls of one run_search, in the order the claim gives them.
StageOrder(p) ==
    << Event("search_provider", 0) >>
    \o (IF flag[p]
        THEN [i \in 1..Len(response[p]) |-> Event("get_transcript", response[p][i].video_id)]
        ELSE <<>>)
    \o << Event("embed_videos", 0), Event("embed_query", 0),
          Event("fit", 0), Event("kneighbors", 0) >>

StageRank(s) ==
    CASE s = "idle" -> 0
      [] s = "fetch_videos" -> 1
      [] s \in {"loop", "provider", "memoize"} -> 2
      [] s = "embed_videos" -> 3
      [] s = "embed_query" -> 4
      [] s = "fit" -> 5
      [] s = "kneighbors" -> 6
      [] OTHER -> 7

C8_Ordered ==
    \A p \in Sessions :
        /\ IsPrefix(log[p], StageOrder(p))
        /\ videos[p] # <<>> => answer[p] = "ok"
        /\ flag[p] =>
             /\ IsPrefix([i \in 1..Len(videos[p]) |-> Event("get_transcript", videos[p][i].video_id)],
                         SubSeq(log[p], 2, Len(log[p])))
             /\ CountId(log[p], 0) > 1 => Len(log[p]) - CountId(log[p], 0) = Len(videos[p])
        /\ "embed_videos" \in Ops(log[p]) =>
             /\ Len(videos[p]) = Len(response[p])
             /\ Len(vEmb[p]) = Len(videos[p])
        /\ "embed_videos" \notin Ops(log[p]) => vEmb[p] = <<>>
        /\ "embed_query" \in Ops(log[p]) <=> qEmb[p] # <<>>
        /\ "fit" \in Ops(log[p]) => "embed_videos" \in Ops(log[p]) /\ Len(qEmb[p]) = 1
        /\ results[p] # <<>> => "kneighbors" \in Ops(log[p])

C8_Forward ==
    \A p \in Sessions :
        pc[p] # "idle" => StageRank(pc'[p]) >= StageRank(pc[p]) \/ pc'[p] = "idle"

\* C8: within one run_search the stages run in the order fetch, transcripts,
\* embedding, ranking, never backwards and never overlapping: the search
\* provider call comes first, the transcript calls follow in candidate order
\* and all complete before the candidate texts are embedded, the query is
\* embedded after them, and ranking starts only when both embeddings exist.
C8_StageOrder == []C8_Ordered /\ [][C8_Forward]_vars

\* C8 witness: a search with transcripts ran every stage to the end.
C8_Witness ==
    /\ pc[1] = "done" /\ flag[1]
    /\ Len(log[1]) = Len(response[1]) + 5
    /\ Len(response[1]) > n_neighbors

C9_Consistent ==
    /\ \A id \in VideoIds :
         /\ resolved[id] \subseteq returned[id]
         /\ id \in DOMAIN cache => cache[id] \in returned[id]
         /\ (tOk[id] > 0 /\ \A p \in Sessions :
                ~(pc[p] = "memoize" /\ Current(p).video_id = id))
              => id \in DOMAIN cache
    /\ \A p \in Sessions : flag[p] =>
         \A i \in 1..Len(videos[p]) :
            videos[p][i].transcript \in returned[videos[p][i].video_id]

C9_AppendOnly ==
    /\ DOMAIN cache \subseteq DOMAIN cache'
    /\ \A p \in Sessions :
         (pc[p] = "memoize" /\ pc'[p] = "loop") =>
            cache'[Current(p).video_id] = pending[p]

\* C9: when two searches run concurrently and resolve the same uncached
\* identifier, both may call the provider and both may write the memo (the
\* last write wins), but the memo then holds the identifier with a value the
\* provider returned for it, no entry is ever removed, and each search gets a
\* transcript the provider returned for that identifier.
C9_RaceTolerated == []C9_Consistent /\ [][C9_AppendOnly]_vars

\* C9 witness: both sessions called the provider for video 1, got different
\* transcripts, and both have written the memo.
C9_Witness ==
    /\ tOk[1] = 2
    /\ Len(videos[1]) >= 1 /\ Len(videos[2]) >= 1
    /\ flag[1] /\ flag[2]
    /\ videos[1][1].video_id = 1 /\ videos[2][1].video_id = 1
    /\ videos[1][1].transcript # videos[2][1].transcript
    /\ 1 \in DOMAIN cache

\* C10: a get_transcript call that fails with a non-degradable error writes
\* no memo entry, so a later resolve of the identifier contacts the provider
\* again; and the entries written for the candidates before the failing one
\* stay in the memo with the values that search got.
C10_FailureLeavesNoEntry ==
    /\ \A id \in VideoIds :
         /\ id \in DOMAIN cache => tOk[id] > 0
         /\ tOk[id] = 0 => resolved[id] = {}
    /\ \A p \in Sessions :
         /\ (pc[p] = "failed" /\ error[p] = "RequestBlocked") =>
              /\ provLog[p][Len(provLog[p])].id \notin DOMAIN cache
              /\ \A i \in 1..Len(videos[p]) :
                   /\ videos[p][i].video_id \in DOMAIN cache
                   /\ cache[videos[p][i].video_id] = videos[p][i].transcript
         /\ \A j \in 1..Len(log[p]) :
              (log[p][j].op = "get_transcript" /\ log[p][j].id \notin DOMAIN cache) =>
                 \/ log[p][j].id \in IdsOf(provLog[p])
                 \/ (j = Len(log[p]) /\ pc[p] = "provider")

\* C10 witness: the first search failed on video 2 after memoizing video 1;
\* the second search took video 1 from the memo and contacted the provider
\* again for video 2.
C10_Witness ==
    /\ runs[1] = 2 /\ flag[1]
    /\ tFail[2] = 1 /\ tOk[2] = 1 /\ tOk[1] = 1 /\ tFail[1] = 0
    /\ IdsOf(provLog[1]) = {2}
    /\ Len(videos[1]) >= 2

====
